---- MODULE Spec2Model ----
(***************************************************************************)
(* A model of ai.py: the sqlite store (chat_history, sessions,             *)
(* session_messages), the selector parsing and the dispatch in main().     *)
(*                                                                         *)
(* Text is modelled as a sequence of pieces (selector strings as a         *)
(* sequence of single characters), so that concatenation, split and int()  *)
(* are computed and not assumed.  The columns timestamp, start_time and    *)
(* sessions.session_id (a uuid4 token) are written once and read by no     *)
(* statement of the program; they are left out of the rows.                *)
(*                                                                         *)
(* One invocation of the program is a process: it owns one sqlite          *)
(* connection.  Writes of a connection go to its open transaction and      *)
(* reach the database file at conn.commit(); a connection that goes away   *)
(* with an open transaction is rolled back.                                *)
(***************************************************************************)
EXTENDS Integers, Sequences, FiniteSets, TLC

\* ------------------------------------------------------------------ bounds
MaxTurns == 3
MaxSessions == 3
MaxLegacy == 2
\* turns already in the store when the list-mode runs begin
MaxHistory == 6

Procs == {1, 2}

\* ------------------------------------------------------------- text values
NoneVal == <<"<None>">>
NoRole == ""
Truthy(x) == x # <<>> /\ x # NoneVal

Min(a, b) == IF a <= b THEN a ELSE b

SetMax(S) == CHOOSE i \in S : \A j \in S : j <= i

SetMin(S) == CHOOSE i \in S : \A j \in S : i <= j

RECURSIVE SortAsc(_)
SortAsc(S) == IF S = {} THEN <<>> ELSE <<SetMin(S)>> \o SortAsc(S \ {SetMin(S)})

Reverse(s) == [k \in 1..Len(s) |-> s[Len(s) + 1 - k]]

Range(s) == {s[k] : k \in 1..Len(s)}

\* SQL "LIMIT n": a negative n means no limit
Limit(s, n) == IF n < 0 THEN s ELSE SubSeq(s, 1, Min(n, Len(s)))

\* ------------------------------------------------------------------ tables
EmptyDb ==
  [chat_history |-> {}, sessions |-> {}, session_messages |-> {}, g_created |-> {}]

Ids(T) == {row.id : row \in T}

\* INTEGER PRIMARY KEY AUTOINCREMENT: no row is ever deleted, so the next id
\* is one more than the largest id of the table
NextRowId(T) == IF T = {} THEN 1 ELSE SetMax(Ids(T)) + 1

RowById(T, i) == CHOOSE row \in T : row.id = i

\* "... ORDER BY id"
OrderById(T) == [k \in 1..Cardinality(T) |-> RowById(T, SortAsc(Ids(T))[k])]

\* "... ORDER BY id DESC"
OrderByIdDesc(T) == Reverse(OrderById(T))

ActiveSessions(D) == {s \in D.sessions : s.is_active = 1}

\* "SELECT id FROM sessions WHERE is_active = 1 ORDER BY id DESC LIMIT 1",
\* fetchone(): <<>> is None, <<i>> is the row (i,)
active_session_row(D) ==
  LET rows == Limit(OrderByIdDesc(ActiveSessions(D)), 1)
  IN  IF rows = <<>> THEN <<>> ELSE <<rows[1].id>>

has_active_session(D) == Cardinality(ActiveSessions(D)) > 0

FullRow(ch) == <<ch.id, ch.problem, ch.answer, ch.output, ch.role>>

ShortRow(ch) == <<ch.id, ch.problem, ch.output, ch.role>>

\* the SELECT without its LIMIT
get_chat_history_unlimited(D, count) ==
  LET rows == OrderByIdDesc(D.chat_history)
  IN  [k \in 1..Len(rows) |-> FullRow(rows[k])]

get_chat_history(D, count) ==
  LET rows == Limit(OrderByIdDesc(D.chat_history), count)
  IN  [k \in 1..Len(rows) |-> FullRow(rows[k])]

get_last_n_records(D, count) ==
  LET rows == Limit(OrderByIdDesc(D.chat_history), count)
  IN  [k \in 1..Len(rows) |-> rows[k].id]

\* the rows in the order of the ids handed in, without ORDER BY id
get_chat_by_ids_as_listed(D, ids) ==
  LET found == SelectSeq(ids, LAMBDA i : i \in Ids(D.chat_history))
  IN  [k \in 1..Len(found) |-> ShortRow(RowById(D.chat_history, found[k]))]

get_chat_by_ids(D, ids) ==
  IF ids = <<>> THEN <<>>
  ELSE LET hit == {ch \in D.chat_history : ch.id \in Range(ids)}
           rows == OrderById(hit)
       IN  [k \in 1..Len(rows) |-> ShortRow(rows[k])]

\* the JOIN of chat_history with session_messages for one session, ORDER BY
\* ch.id (one result row per membership row)
JoinRows(D, sid) ==
  {<<ch, sm>> \in D.chat_history \X D.session_messages :
      ch.id = sm.message_id /\ sm.session_id = sid}

RECURSIVE OrderJoin(_)
OrderJoin(J) ==
  IF J = {} THEN <<>>
  ELSE LET lo == CHOOSE x \in J : \A y \in J :
                   \/ x[1].id < y[1].id
                   \/ (x[1].id = y[1].id /\ x[2].id <= y[2].id)
       IN  <<FullRow(lo[1])>> \o OrderJoin(J \ {lo})

\* the JOIN result newest first
get_active_session_messages_desc(D) ==
  LET session_row == active_session_row(D)
  IN  IF session_row = <<>> THEN <<>>
      ELSE Reverse(OrderJoin(JoinRows(D, session_row[1])))

get_active_session_messages(D) ==
  LET session_row == active_session_row(D)
  IN  IF session_row = <<>> THEN <<>> ELSE OrderJoin(JoinRows(D, session_row[1]))

\* ------------------------------------------------------- selector parsing
Digits == {"0", "1", "2", "3", "4", "5", "6", "7", "8", "9"}

DigitVal(c) ==
  CASE c = "0" -> 0 [] c = "1" -> 1 [] c = "2" -> 2 [] c = "3" -> 3
    [] c = "4" -> 4 [] c = "5" -> 5 [] c = "6" -> 6 [] c = "7" -> 7
    [] c = "8" -> 8 [] c = "9" -> 9

IsDigits(s) == s # <<>> /\ \A k \in 1..Len(s) : s[k] \in Digits

RECURSIVE NatOf(_)
NatOf(s) ==
  IF s = <<>> THEN 0 ELSE 10 * NatOf(SubSeq(s, 1, Len(s) - 1)) + DigitVal(s[Len(s)])

\* int(s) does not raise ValueError: digits with an optional sign (the
\* selectors of the model hold no blanks and no underscores)
IntOK(s) ==
  \/ IsDigits(s)
  \/ Len(s) >= 2 /\ s[1] \in {"-", "+"} /\ IsDigits(Tail(s))

ToInt(s) ==
  IF s[1] = "-" THEN 0 - NatOf(Tail(s))
  ELSE IF s[1] = "+" THEN NatOf(Tail(s))
  ELSE NatOf(s)

\* str.split(sep) for a one-character separator
RECURSIVE Split(_, _)
Split(s, sep) ==
  IF \A k \in 1..Len(s) : s[k] # sep THEN <<s>>
  ELSE LET i == CHOOSE k \in 1..Len(s) :
                  s[k] = sep /\ \A j \in 1..(k - 1) : s[j] # sep
       IN  <<SubSeq(s, 1, i - 1)>> \o Split(SubSeq(s, i + 1, Len(s)), sep)

Contains(s, c) == \E k \in 1..Len(s) : s[k] = c

\* list(range(a, b))
PyRange(a, b) == IF b > a THEN [k \in 1..(b - a) |-> a + k - 1] ELSE <<>>

\* parse_range raised (and caught) ValueError: it printed the error
parse_range_error(range_str) ==
  IF Contains(range_str, ",")
  THEN \E k \in 1..Len(Split(range_str, ",")) : ~IntOK(Split(range_str, ",")[k])
  ELSE IF Contains(range_str, "-")
  THEN LET parts == Split(range_str, "-")
       IN  Len(parts) # 2 \/ ~IntOK(parts[1]) \/ ~IntOK(parts[2])
  ELSE ~IntOK(range_str)

parse_range(range_str) ==
  IF parse_range_error(range_str) THEN <<>>
  ELSE IF Contains(range_str, ",")
  THEN LET parts == Split(range_str, ",")
       IN  [k \in 1..Len(parts) |-> ToInt(parts[k])]
  ELSE IF Contains(range_str, "-")
  THEN LET parts == Split(range_str, "-")
       IN  PyRange(ToInt(parts[1]), ToInt(parts[2]) + 1)
  ELSE <<ToInt(range_str)>>

\* main(), lines 691-695: the ids selected by a list or range selector
ids_of_indices(D, indices) ==
  IF indices = <<>> THEN <<>>
  ELSE LET last_ids == get_last_n_records(D, SetMax(Range(indices)) + 1)
           kept == SelectSeq(indices, LAMBDA i : 1 <= i /\ i <= Len(last_ids))
       IN  [k \in 1..Len(kept) |-> last_ids[(kept[k] - 1) + 1]]

\* a single integer read as one recency index
select_ids_as_index(D, m) ==
  IF Contains(m, "-") \/ Contains(m, ",")
  THEN <<TRUE, ids_of_indices(D, parse_range(m))>>
  ELSE IF IntOK(m) THEN <<TRUE, ids_of_indices(D, <<ToInt(m)>>)>>
  ELSE <<FALSE, <<>>>>

\* main(), lines 688-703: <<ok, ids>>; ok is FALSE where main() prints
\* the invalid -m value and returns
select_ids(D, m) ==
  IF Contains(m, "-") \/ Contains(m, ",")
  THEN <<TRUE, ids_of_indices(D, parse_range(m))>>
  ELSE IF IntOK(m) THEN <<TRUE, get_last_n_records(D, ToInt(m))>>
  ELSE <<FALSE, <<>>>>

\* ------------------------------------------------------ payload and output
create_param_list(records) ==
  LET usable == SelectSeq(records, LAMBDA rec : Len(rec) = 5 \/ Len(rec) = 4)
      problem(rec) == rec[2]
      output(rec) == IF Len(rec) = 5 THEN rec[4] ELSE rec[3]
  IN  [k \in 1..Len(usable) |->
         IF Truthy(output(usable[k]))
         THEN [problem |-> problem(usable[k]), output |-> output(usable[k])]
         ELSE [problem |-> problem(usable[k])]]

\* ' '.join(args.message)
RECURSIVE Join(_)
Join(words) ==
  IF words = <<>> THEN <<>>
  ELSE IF Len(words) = 1 THEN words[1]
  ELSE words[1] \o <<" ">> \o Join(Tail(words))

SuffixStart == <<" ;answer by Chinese">>
Suffix == <<"; answer by Chinese">>

\* an output line holding "?" resp. the execute/revise menu of aichat
QuestionLines == {"? menu"}
MenuLines == {"? menu"}

extract_answer_from_output(output, is_code_mode) ==
  IF /\ is_code_mode
     /\ \E k \in 1..Len(output) : output[k] \in QuestionLines
     /\ \E k \in 1..Len(output) : output[k] \in MenuLines
  THEN <<output[1]>>
  ELSE output

\* format_history_list: one line per record, numbered from 1 (the problems
\* of the model are shorter than the 50 characters kept of a problem)
format_history_list(records) ==
  IF records = <<>> THEN <<"no records">>
  ELSE [k \in 1..Len(records) |->
          <<k, records[k][1],
            IF records[k][5] # "default" THEN records[k][5] ELSE "",
            IF records[k][5] = "code"
            THEN records[k][2] \o <<" | ">> \o records[k][3]
            ELSE records[k][2]>>]

\* ------------------------------------------------------------------- state
VARIABLES
  db,    \* the database file: the committed tables
  txn,   \* per process: <<>> or <<D>>, the tables as its open transaction has them
  pc,    \* per process: the position of the invocation
  args,  \* per process: the parsed command line
  loc,   \* per process: the locals of main() and of the store function it is in
  fate   \* per process: how its latest invocation ended (a history record)

vars == <<db, txn, pc, args, loc, fate>>

\* sqlite3.connect(DB_PATH) with the default isolation_level: INSERT and
\* UPDATE open a transaction implicitly, which lasts until conn.commit()
ImplicitTransactionOff == FALSE

ImplicitTransaction == TRUE

\* what the statements of process p read
View(p) == IF txn[p] = <<>> THEN db ELSE txn[p][1]

\* a write needs the RESERVED lock of the database file: no other
\* connection has an open write transaction
LockFree(p) == \A q \in Procs \ {p} : txn[q] = <<>>

\* cursor.execute of an INSERT or UPDATE that turns the tables into D2
Write(p, D2) ==
  IF ImplicitTransaction
  THEN /\ LockFree(p)
       /\ txn' = [txn EXCEPT ![p] = <<D2>>]
       /\ UNCHANGED db
  ELSE /\ db' = D2
       /\ UNCHANGED txn

\* conn.commit()
Commit(p) ==
  IF txn[p] # <<>>
  THEN /\ db' = txn[p][1]
       /\ txn' = [txn EXCEPT ![p] = <<>>]
  ELSE UNCHANGED <<db, txn>>

\* a connection that writes its open transaction out when it goes away
RollbackKeeps(p) ==
  /\ txn' = [txn EXCEPT ![p] = <<>>]
  /\ db' = View(p)

\* the connection goes away with the process: an open transaction is lost
Rollback(p) ==
  /\ txn' = [txn EXCEPT ![p] = <<>>]
  /\ UNCHANGED db

\* ------------------------------------------------------------ the statements
LatestSession(D) == IF D.sessions = {} THEN 0 ELSE SetMax(Ids(D.sessions))

\* the INSERT with answer and output bound to each other's column
InsertChatSwapped(D, problem, answer, output, role) ==
  LET chat_id == NextRowId(D.chat_history)
  IN  [D EXCEPT
         !.chat_history = @ \cup {[id |-> chat_id, problem |-> problem,
                                   answer |-> output, output |-> answer,
                                   role |-> role]},
         !.g_created = @ \cup {[turn |-> chat_id, latest |-> LatestSession(D),
                                had_active |-> has_active_session(D)]}]

\* "INSERT INTO chat_history (problem, answer, output, role) VALUES (?,?,?,?)"
\* g_created is a history record: the session most recently started and
\* whether a session was active, as the inserting connection saw them
InsertChat(D, problem, answer, output, role) ==
  LET chat_id == NextRowId(D.chat_history)
  IN  [D EXCEPT
         !.chat_history = @ \cup {[id |-> chat_id, problem |-> problem,
                                   answer |-> answer, output |-> output,
                                   role |-> role]},
         !.g_created = @ \cup {[turn |-> chat_id, latest |-> LatestSession(D),
                                had_active |-> has_active_session(D)]}]

\* the INSERT together with a move of every membership to the session
InsertMemberRelink(D, session_id, chat_id) ==
  [D EXCEPT !.session_messages =
      {[sm EXCEPT !.session_id = session_id] : sm \in @}
        \cup {[id |-> NextRowId(@), session_id |-> session_id, message_id |-> chat_id]}]

\* "INSERT INTO session_messages (session_id, message_id) VALUES (?, ?)"
InsertMember(D, session_id, chat_id) ==
  [D EXCEPT !.session_messages =
      @ \cup {[id |-> NextRowId(@), session_id |-> session_id, message_id |-> chat_id]}]

\* the UPDATE reaching only the newest active session
DeactivateNewest(D) ==
  [D EXCEPT !.sessions =
      {IF <<s.id>> = active_session_row(D) THEN [s EXCEPT !.is_active = 0] ELSE s
         : s \in @}]

\* "UPDATE sessions SET is_active = 0 WHERE is_active = 1"
DeactivateAll(D) ==
  [D EXCEPT !.sessions =
      {IF s.is_active = 1 THEN [s EXCEPT !.is_active = 0] ELSE s : s \in @}]

\* "INSERT INTO sessions (session_id) VALUES (?)": is_active DEFAULT 1
InsertSession(D) ==
  [D EXCEPT !.sessions = @ \cup {[id |-> NextRowId(@), is_active |-> 1]}]

\* ----------------------------------------------------------- the invocation
NoArgs == [e |-> FALSE, r |-> NoRole, m_given |-> FALSE, m |-> <<>>, message |-> <<>>]

InitLoc ==
  [site |-> "none", message |-> NoneVal, original_message |-> NoneVal,
   records |-> <<>>, param_list |-> <<>>, output |-> NoneVal,
   suggested_cmd |-> NoneVal, answer |-> NoneVal, chat_id |-> 0,
   session_row |-> <<>>, new_session |-> 0, printed |-> <<>>,
   invoked |-> FALSE, run |-> <<>>]

\* main(), lines 580-584
Role(a) == IF a.e THEN "code" ELSE IF a.r # NoRole THEN a.r ELSE "default"

\* "if not args.e and not args.r"
PlainDefault(a) == ~a.e /\ a.r = NoRole

SelList == {<<"l", "i", "s", "t">>, <<"l">>}
SelStart == {<<"s", "t", "a", "r", "t">>, <<"s">>}

\* the bare -m branch without the has_active_session test
DispatchContUnchecked(D, a) ==
  LET l0 == [InitLoc EXCEPT !.site = "cont"]
      message == Join(a.message)
      sent == IF PlainDefault(a) THEN message \o Suffix ELSE message
      records == get_active_session_messages(D)
  IN  IF ~Truthy(message)
      THEN [pc |-> "returned", loc |-> [l0 EXCEPT !.printed = <<"no message">>]]
      ELSE [pc |-> "exec",
            loc |-> [l0 EXCEPT !.original_message = message, !.message = sent,
                               !.records = records,
                               !.param_list = create_param_list(records)
                                                \o <<[problem |-> sent]>>]]

\* main(), lines 631-652: bare -m
DispatchCont(D, a) ==
  LET l0 == [InitLoc EXCEPT !.site = "cont"]
      message == Join(a.message)
      sent == IF PlainDefault(a) THEN message \o Suffix ELSE message
      records == get_active_session_messages(D)
  IN  IF ~has_active_session(D)
      THEN [pc |-> "returned", loc |-> [l0 EXCEPT !.printed = <<"no active session">>]]
      ELSE IF ~Truthy(message)
      THEN [pc |-> "returned", loc |-> [l0 EXCEPT !.printed = <<"no message">>]]
      ELSE [pc |-> "exec",
            loc |-> [l0 EXCEPT !.original_message = message, !.message = sent,
                               !.records = records,
                               !.param_list = create_param_list(records)
                                                \o <<[problem |-> sent]>>]]

\* main(), lines 675-709: a numeric, list or range selector
DispatchHist(D, a) ==
  LET l0 == [InitLoc EXCEPT !.site = "hist"]
      message == Join(a.message)
      sent == IF PlainDefault(a) THEN message \o Suffix ELSE message
      sel == select_ids(D, a.m)
      said == IF (Contains(a.m, "-") \/ Contains(a.m, ",")) /\ parse_range_error(a.m)
              THEN <<"invalid range">> ELSE <<>>
      records == get_chat_by_ids(D, sel[2])
  IN  IF ~Truthy(message)
      THEN [pc |-> "returned", loc |-> [l0 EXCEPT !.printed = <<"no message">>]]
      ELSE IF ~sel[1]
      THEN [pc |-> "returned", loc |-> [l0 EXCEPT !.printed = <<"invalid -m">>]]
      ELSE [pc |-> "exec",
            loc |-> [l0 EXCEPT !.original_message = message, !.message = sent,
                               !.records = records, !.printed = said,
                               !.param_list = create_param_list(records)
                                                \o <<[problem |-> sent]>>]]

\* main(), lines 732-748: no -m
DispatchPlain(D, a) ==
  LET l0 == [InitLoc EXCEPT !.site = "plain"]
      message == Join(a.message)
      sent == IF PlainDefault(a) THEN message \o Suffix ELSE message
  IN  IF ~Truthy(message)
      THEN [pc |-> "returned", loc |-> [l0 EXCEPT !.printed = <<"no message">>]]
      ELSE [pc |-> "exec",
            loc |-> [l0 EXCEPT !.original_message = message, !.message = sent]]

\* main(), lines 587-736: from the parsed arguments to the first statement
\* that writes, runs the executor or returns
Dispatch(D, a) ==
  IF a.m_given /\ a.m \in SelList
  THEN [pc |-> "returned",
        loc |-> [InitLoc EXCEPT !.site = "list",
                   !.printed = <<format_history_list(get_chat_history(D, 5))>>]]
  ELSE IF a.m_given /\ a.m \in SelStart
  THEN [pc |-> "ss_update", loc |-> [InitLoc EXCEPT !.site = "start"]]
  ELSE IF a.m_given /\ a.m = <<>> THEN DispatchCont(D, a)
  ELSE IF a.m_given THEN DispatchHist(D, a)
  ELSE DispatchPlain(D, a)

Running(q) == pc[q] # "idle"

\* the bounds of the model: the executor is run and a row is inserted only
\* while the table has room for the row
RoomForTurn(p) == Cardinality(View(p).chat_history) < MaxTurns

RoomForSession(p) == Cardinality(View(p).sessions) < MaxSessions

\* a new invocation of the program with the command line a
Main(p, A) ==
  /\ pc[p] = "idle"
  /\ \E a \in A :
       LET res == Dispatch(View(p), a)
       IN  /\ args' = [args EXCEPT ![p] = a]
           /\ pc' = [pc EXCEPT ![p] = res.pc]
           /\ loc' = [loc EXCEPT ![p] = res.loc]
  /\ fate' = [fate EXCEPT ![p] = <<"running">>]
  /\ UNCHANGED <<db, txn>>

\* start_session, line 127
SsUpdate(p) ==
  /\ pc[p] = "ss_update"
  /\ Write(p, DeactivateAll(View(p)))
  /\ pc' = [pc EXCEPT ![p] = "ss_insert"]
  /\ UNCHANGED <<args, loc, fate>>

\* start_session, lines 130-135, and main(), lines 598-613 and 629
SsInsert(p) ==
  LET D2 == InsertSession(View(p))
      sent == IF PlainDefault(args[p])
              THEN Join(args[p].message) \o SuffixStart
              ELSE Join(args[p].message)
  IN  /\ pc[p] = "ss_insert"
      /\ RoomForSession(p)
      /\ Write(p, D2)
      /\ IF args[p].message # <<>>
         THEN /\ pc' = [pc EXCEPT ![p] = "exec"]
              /\ loc' = [loc EXCEPT ![p].new_session = LatestSession(D2),
                                    ![p].printed = <<"session started">>,
                                    ![p].message = sent]
         ELSE /\ pc' = [pc EXCEPT ![p] = "returned"]
              /\ loc' = [loc EXCEPT ![p].new_session = LatestSession(D2),
                                    ![p].printed = <<"session started">>]
      /\ UNCHANGED <<args, fate>>

\* run_aichat_command: <<output, suggested_cmd>>; the except clause of
\* line 494 returns the error text as the output
ErrText == <<"error: cannot run aichat">>

\* one run of the executor as the program meets it (not on Windows): how it
\* went, the lines it wrote to stdout and to stderr, and the lines the
\* command it suggested writes when bash runs it
ExecutorRuns ==
  {[how |-> "ok", stdout |-> <<"answer">>, stderr |-> <<>>, shell |-> <<>>],
   [how |-> "ok", stdout |-> <<>>, stderr |-> <<>>, shell |-> <<>>],
   [how |-> "ok", stdout |-> <<"ls">>, stderr |-> <<>>, shell |-> <<"a.txt">>],
   [how |-> "exit_abnormal", stdout |-> <<>>, stderr |-> <<"aichat: failed">>,
    shell |-> <<>>],
   [how |-> "no_launch", stdout |-> <<>>, stderr |-> <<>>, shell |-> <<>>]}

\* run_aichat_command for the executor run r: Popen raises when the
\* executor cannot be launched; code mode reads stdout alone and takes its
\* first line as the suggested command ("" is <<>>); otherwise stderr is
\* merged into stdout
run_aichat_command(is_code_mode, r) ==
  IF r.how = "no_launch" THEN <<ErrText, NoneVal>>
  ELSE IF is_code_mode
  THEN LET suggested_command == IF r.stdout = <<>> THEN <<>> ELSE <<r.stdout[1]>>
           actual_output == IF suggested_command # <<>> THEN r.shell ELSE <<>>
           first == IF suggested_command = <<>> THEN "ran: "
                    ELSE "ran: " \o suggested_command[1]
       IN  <<<<first, "">> \o actual_output, suggested_command>>
  ELSE <<r.stdout \o r.stderr, NoneVal>>

Outcomes(is_code_mode) ==
  {run_aichat_command(is_code_mode, r) : r \in ExecutorRuns}

\* main(), lines 615-621 (and 659-665, 716-722, 750-756): the executor
\* runs and the answer is derived from what it returned
Exec(p, O) ==
  /\ pc[p] = "exec"
  /\ RoomForTurn(p)
  /\ \E r \in ExecutorRuns :
       LET out == run_aichat_command(args[p].e, r)
           answer == IF args[p].e /\ Truthy(out[2]) THEN out[2]
                     ELSE extract_answer_from_output(out[1], args[p].e)
       IN  /\ out \in Outcomes(args[p].e) \cap O
           /\ loc' = [loc EXCEPT ![p].output = out[1], ![p].suggested_cmd = out[2],
                                  ![p].answer = answer, ![p].invoked = TRUE,
                                  ![p].run = <<r>>]
  /\ pc' = [pc EXCEPT ![p] = "save_insert"]
  /\ UNCHANGED <<db, txn, args, fate>>

\* the problem handed to save_chat_record: line 623 passes message, lines
\* 668, 725 and 759 pass original_message
ProblemToSave(l) == IF l.site = "start" THEN l.message ELSE l.original_message

\* save_chat_record, lines 104-109
SaveInsert(p) ==
  LET D == View(p)
  IN  /\ pc[p] = "save_insert"
      /\ RoomForTurn(p)
      /\ Write(p, InsertChat(D, ProblemToSave(loc[p]), loc[p].answer,
                             loc[p].output, Role(args[p])))
      /\ loc' = [loc EXCEPT ![p].chat_id = NextRowId(D.chat_history)]
      /\ pc' = [pc EXCEPT ![p] = "save_select"]
      /\ UNCHANGED <<args, fate>>

\* save_chat_record, lines 112-114
SaveSelect(p) ==
  LET session_row == active_session_row(View(p))
  IN  /\ pc[p] = "save_select"
      /\ loc' = [loc EXCEPT ![p].session_row = session_row]
      /\ pc' = [pc EXCEPT ![p] =
                  IF session_row # <<>> THEN "save_member" ELSE "save_commit"]
      /\ UNCHANGED <<db, txn, args, fate>>

\* save_chat_record, lines 115-119
SaveMember(p) ==
  /\ pc[p] = "save_member"
  /\ Write(p, InsertMember(View(p), loc[p].session_row[1], loc[p].chat_id))
  /\ pc' = [pc EXCEPT ![p] = "save_commit"]
  /\ UNCHANGED <<args, loc, fate>>

\* save_chat_record, lines 120-121, and the print(output) of main()
SaveCommit(p) ==
  /\ pc[p] = "save_commit"
  /\ Commit(p)
  /\ pc' = [pc EXCEPT ![p] = "returned"]
  /\ UNCHANGED <<args, loc, fate>>

\* main() returns and the process ends; only the plain branch reaches
\* close_db_connection, and there nothing is pending
Exit(p) ==
  /\ pc[p] = "returned"
  /\ Rollback(p)
  /\ pc' = [pc EXCEPT ![p] = "idle"]
  /\ args' = [args EXCEPT ![p] = NoArgs]
  /\ loc' = [loc EXCEPT ![p] = InitLoc]
  /\ fate' = [fate EXCEPT ![p] = <<"returned">>]

\* the process is killed between two statements
Crash(p) ==
  /\ pc[p] \in {"ss_update", "ss_insert", "exec", "save_insert", "save_select",
                "save_member", "save_commit"}
  /\ Rollback(p)
  /\ pc' = [pc EXCEPT ![p] = "idle"]
  /\ args' = [args EXCEPT ![p] = NoArgs]
  /\ loc' = [loc EXCEPT ![p] = InitLoc]
  /\ fate' = [fate EXCEPT ![p] = <<"killed", pc[p]>>]

\* a write finds the database locked by another connection until the busy
\* timeout of sqlite3.connect: OperationalError ends the process
Busy(p) ==
  /\ pc[p] \in {"ss_update", "save_insert"}
  /\ ImplicitTransaction
  /\ ~LockFree(p)
  /\ Rollback(p)
  /\ pc' = [pc EXCEPT ![p] = "idle"]
  /\ args' = [args EXCEPT ![p] = NoArgs]
  /\ loc' = [loc EXCEPT ![p] = InitLoc]
  /\ fate' = [fate EXCEPT ![p] = <<"locked", pc[p]>>]

\* ------------------------------------------------------ inputs of the model
Words == {<<>>, <<<<"q">>>>}

NoSelector == [m_given |-> FALSE, m |-> <<>>]
Given(m) == [m_given |-> TRUE, m |-> m]

\* -m values: list, l, start, s, "", 2
BasicSelectors ==
  {Given(<<"l", "i", "s", "t">>), Given(<<"l">>), Given(<<"s", "t", "a", "r", "t">>),
   Given(<<"s">>), Given(<<>>), Given(<<"2">>)}

\* -m values: 1,2  2,1  1,3  3,1  0,1  1,1  1,5  2-3  1-3  3-2
ValidIndexSelectors ==
  {Given(<<"1", ",", "2">>), Given(<<"2", ",", "1">>), Given(<<"1", ",", "3">>),
   Given(<<"3", ",", "1">>), Given(<<"0", ",", "1">>), Given(<<"1", ",", "1">>),
   Given(<<"1", ",", "5">>), Given(<<"2", "-", "3">>), Given(<<"1", "-", "3">>),
   Given(<<"3", "-", "2">>)}

\* -m values: abc  1,x  a-b  -3  1,3-5  1-2-3
OtherSelectors ==
  {Given(<<"a", "b", "c">>), Given(<<"1", ",", "x">>), Given(<<"a", "-", "b">>),
   Given(<<"-", "3">>), Given(<<"1", ",", "3", "-", "5">>),
   Given(<<"1", "-", "2", "-", "3">>)}

\* -m values: 0  1  3  12
CountSelectors ==
  {Given(<<"0">>), Given(<<"1">>), Given(<<"3">>), Given(<<"1", "2">>)}

ArgsOf(Es, Rs, Ms, Ws) ==
  {[e |-> e, r |-> r, m_given |-> m.m_given, m |-> m.m, message |-> w] :
     e \in Es, r \in Rs, m \in Ms, w \in Ws}

\* the dispatcher: every mode, the selectors that choose a branch of main()
SeqArgs == ArgsOf(BOOLEAN, {NoRole, "r1"}, BasicSelectors \cup {NoSelector}, Words)

SeqOutcomes ==
  {<<<<"answer">>, NoneVal>>, <<<<>>, NoneVal>>, <<<<"ran: ls", "", "a.txt">>, <<"ls">>>>}

\* the selectors: every -m value, default role with and without -e
SelArgs ==
  ArgsOf(BOOLEAN, {NoRole},
         ValidIndexSelectors \cup OtherSelectors \cup CountSelectors
           \cup {Given(<<"s">>), Given(<<>>), Given(<<"l">>), NoSelector},
         Words)

SelOutcomes == {<<<<"answer">>, NoneVal>>, <<<<"ran: ", "">>, <<>>>>, <<ErrText, NoneVal>>}

\* two invocations at once: start mode and plain mode
ConcArgs == ArgsOf({FALSE}, {NoRole}, {Given(<<"s">>), Given(<<>>), NoSelector}, Words)

ConcOutcomes == {<<<<"answer">>, NoneVal>>}

\* every branch that runs the executor, with and without -e
ExecArgs ==
  ArgsOf(BOOLEAN, {NoRole},
         {NoSelector, Given(<<"s">>), Given(<<>>), Given(<<"1">>)}, Words)

\* what run_aichat_command returns, in either mode, for the runs that
\* failed and for one that succeeded
ExecOutcomes ==
  {run_aichat_command(is_code_mode, r) :
     is_code_mode \in BOOLEAN,
     r \in {x \in ExecutorRuns : x.how # "ok" \/ x.stdout = <<"ls">>}}

\* list mode next to the invocations that write: start mode and plain mode
ListArgs ==
  ArgsOf({FALSE}, {NoRole},
         {Given(m) : m \in SelList} \cup {Given(<<"s">>), NoSelector}, Words)

\* the tables after k plain invocations "ai.py q", each answered: k turns,
\* no session
RECURSIVE PlainHistory(_)
PlainHistory(k) ==
  IF k = 0 THEN EmptyDb
  ELSE InsertChat(PlainHistory(k - 1), <<"q">>,
                  extract_answer_from_output(<<"answer">>, FALSE), <<"answer">>,
                  "default")

\* a sessions table left by an earlier version: any is_active flags
LegacySessions ==
  UNION {{{[id |-> i, is_active |-> f[i]] : i \in 1..n} : f \in [1..n -> {0, 1}]}
           : n \in 0..MaxLegacy}

\* ----------------------------------------------------------- specifications
Init ==
  /\ db = EmptyDb
  /\ txn = [p \in Procs |-> <<>>]
  /\ pc = [p \in Procs |-> "idle"]
  /\ args = [p \in Procs |-> NoArgs]
  /\ loc = [p \in Procs |-> InitLoc]
  /\ fate = [p \in Procs |-> <<"none">>]

InitLegacy ==
  /\ db \in {[EmptyDb EXCEPT !.sessions = S] : S \in LegacySessions}
  /\ txn = [p \in Procs |-> <<>>]
  /\ pc = [p \in Procs |-> "idle"]
  /\ args = [p \in Procs |-> NoArgs]
  /\ loc = [p \in Procs |-> InitLoc]
  /\ fate = [p \in Procs |-> <<"none">>]

\* a store that holds up to MaxHistory turns of earlier plain invocations
InitHistory ==
  /\ db \in {PlainHistory(k) : k \in 0..MaxHistory}
  /\ txn = [p \in Procs |-> <<>>]
  /\ pc = [p \in Procs |-> "idle"]
  /\ args = [p \in Procs |-> NoArgs]
  /\ loc = [p \in Procs |-> InitLoc]
  /\ fate = [p \in Procs |-> <<"none">>]

\* the steps of the invocations P with command lines from A and executor
\* results from O
Step(P, A, O) ==
  \E p \in P :
    \/ Main(p, A)
    \/ SsUpdate(p)
    \/ SsInsert(p)
    \/ Exec(p, O)
    \/ SaveInsert(p)
    \/ SaveSelect(p)
    \/ SaveMember(p)
    \/ SaveCommit(p)
    \/ Exit(p)

\* one invocation at a time, each run to completion
Next == Step({1}, SeqArgs, SeqOutcomes)

Spec == Init /\ [][Next]_vars

NextSel == Step({1}, SelArgs, SelOutcomes)

SpecSel == Init /\ [][NextSel]_vars

NextLegacy == Step({1}, ConcArgs, ConcOutcomes)

SpecLegacy == InitLegacy /\ [][NextLegacy]_vars

NextExec == Step({1}, ExecArgs, ExecOutcomes)

SpecExec == Init /\ [][NextExec]_vars

NextList == Step({1}, ListArgs, ConcOutcomes)

SpecList == InitHistory /\ [][NextList]_vars

\* invocations that overlap, are killed, or give up on a locked database
NextConc ==
  \/ Step(Procs, ConcArgs, ConcOutcomes)
  \/ \E p \in Procs : Crash(p)
  \/ \E p \in Procs : Busy(p)

SpecConc == Init /\ [][NextConc]_vars

\* ------------------------------------------------------------------ claims
\* the tables as the database file and as every open transaction have them
AllViews == {db} \cup {txn[p][1] : p \in {q \in Procs : txn[q] # <<>>}}

\* start_session has returned in the invocation p
Started(p) == loc[p].site = "start" /\ pc[p] \notin {"idle", "ss_update", "ss_insert"}

AtMostOneActive == \A D \in AllViews : Cardinality(ActiveSessions(D)) <= 1

\* C1: once start_session has run, from any sessions table (also one with
\* several active sessions), has_active_session is true and exactly one
\* session is active, as the connection that ran it sees the tables; and no
\* step of the program takes the store from at most one active session to
\* more than one, so from an empty store at most one session is ever active.
C1_StartSessionOneActive ==
  /\ [](\A p \in Procs : Started(p) =>
          /\ has_active_session(View(p))
          /\ Cardinality(ActiveSessions(View(p))) = 1)
  /\ [][AtMostOneActive => AtMostOneActive']_vars

\* start_session has run on a store that held two active sessions
C1_Witness ==
  \E p \in Procs :
    /\ Started(p)
    /\ txn[p] # <<>>
    /\ Cardinality(ActiveSessions(db)) >= 2
    /\ Cardinality(ActiveSessions(View(p))) = 1

\* C2: when a start-mode invocation (-m start, -m s) has run to completion,
\* with or without a message, the database file holds the session it created
\* as the active session.
C2_StartModeDurable ==
  [][\A p \in Procs :
       (pc[p] = "returned" /\ pc'[p] = "idle" /\ loc[p].site = "start") =>
          /\ has_active_session(db')
          /\ active_session_row(db') = <<loc[p].new_session>>]_vars

\* the tables a connection sees once save_chat_record or start_session is
\* not in the middle of its statements
SettledViews ==
  {db} \cup {txn[p][1] : p \in {q \in Procs : txn[q] # <<>>
                                   /\ pc[q] \notin {"ss_insert", "save_select", "save_member"}}}

MembershipsOf(D, t) == {sm \in D.session_messages : sm.message_id = t}

CreatedUnder(D, s) == {g.turn : g \in {h \in D.g_created : h.latest = s}}

RowIds(rows) == [k \in 1..Len(rows) |-> rows[k][1]]

\* C3: a turn created after a start_session and before the next one is a
\* member of the session started then and of no other; while that session is
\* active, get_active_session_messages returns exactly the turns created
\* under it, in creation order; a turn created before any start_session has
\* no membership.
C3_TurnsFollowSession ==
  \A D \in SettledViews :
    /\ \A g \in D.g_created :
         IF g.latest = 0
         THEN MembershipsOf(D, g.turn) = {}
         ELSE /\ Cardinality(MembershipsOf(D, g.turn)) = 1
              /\ \A sm \in MembershipsOf(D, g.turn) : sm.session_id = g.latest
    /\ \A s \in ActiveSessions(D) :
         RowIds(get_active_session_messages(D)) = SortAsc(CreatedUnder(D, s.id))

\* one turn from before any session and two turns of the active session
C3_Witness ==
  /\ \E g \in db.g_created : g.latest = 0
  /\ Len(get_active_session_messages(db)) = 2

\* a save_chat_record of the invocation p has inserted its turn
Saved(p) ==
  /\ loc[p].chat_id # 0
  /\ pc[p] \in {"save_select", "save_member", "save_commit", "returned"}

StoredTurn(p) == RowById(View(p).chat_history, loc[p].chat_id)

\* C4: in every branch of main() that records a turn, the problem stored is
\* the user's message without the language hint.
C4_ProblemUnsuffixed ==
  \A p \in Procs : Saved(p) => StoredTurn(p).problem = Join(args[p].message)

\* the -m grammar: list, l, start, s, the empty string, integers separated
\* by commas, a range a-b of integers, one integer
SelectorInGrammar(m) ==
  \/ m \in SelList \cup SelStart
  \/ m = <<>>
  \/ IsDigits(m)
  \/ /\ Contains(m, ",")
     /\ \A k \in 1..Len(Split(m, ",")) : IsDigits(Split(m, ",")[k])
  \/ /\ Len(Split(m, "-")) = 2
     /\ IsDigits(Split(m, "-")[1])
     /\ IsDigits(Split(m, "-")[2])

\* C5: an invocation whose -m value is outside the grammar reports the
\* invalid selector and returns: the executor is not run and no turn is
\* recorded.
C5_InvalidSelectorAborts ==
  \A p \in Procs :
    (Running(p) /\ args[p].m_given /\ ~SelectorInGrammar(args[p].m)
       /\ args[p].message # <<>>) =>
       /\ pc[p] = "returned"
       /\ ~loc[p].invoked
       /\ loc[p].chat_id = 0
       /\ txn[p] = <<>>
       /\ loc[p].printed \in {<<"invalid -m">>, <<"invalid range">>}

\* the id of the k-th most recent turn: k - 1 turns have a larger id
TurnAtRecency(D, k) ==
  {t \in Ids(D.chat_history) :
     Cardinality({u \in Ids(D.chat_history) : u > t}) = k - 1}

IndexSelector(m) ==
  (Contains(m, ",") \/ Contains(m, "-")) /\ ~parse_range_error(m)

\* C6: for a comma list or a range, each index k is a recency index (1 is
\* the newest turn): the context rows are exactly the turns at the indices
\* within 1..number of turns, other indices are dropped, and the rows are in
\* ascending id order whatever the order of the indices.
C6_IndexSelectorContext ==
  \A p \in Procs :
    (pc[p] = "exec" /\ loc[p].site = "hist" /\ IndexSelector(args[p].m)) =>
       LET N == Cardinality(db.chat_history)
           wanted == UNION {TurnAtRecency(db, k) :
                              k \in {i \in Range(parse_range(args[p].m)) : 1 <= i /\ i <= N}}
       IN  RowIds(loc[p].records) = SortAsc(wanted)

\* -m "3,1" with three turns stored: the rows 1 and 3, in this order
C6_Witness ==
  \E p \in Procs :
    /\ pc[p] = "exec"
    /\ args[p].m = <<"3", ",", "1">>
    /\ Cardinality(db.chat_history) = 3
    /\ RowIds(loc[p].records) = <<1, 3>>

\* C7 as amended: after save_chat_record(p, a, o, role), get_chat_by_ids of
\* the returned id gives exactly one row, (id, p, o, role), with p, o and
\* role as they were passed; the answer is not a column of that row.
C7_RoundTripRow ==
  \A p \in Procs :
    Saved(p) =>
      get_chat_by_ids(View(p), <<loc[p].chat_id>>)
        = <<<<loc[p].chat_id, ProblemToSave(loc[p]), loc[p].output, Role(args[p])>>>>

\* C7 as stated: the one turn returned carries p, a, o and role.
C7_RoundTripAllFields ==
  \A p \in Procs :
    Saved(p) =>
      get_chat_by_ids(View(p), <<loc[p].chat_id>>)
        = <<<<loc[p].chat_id, ProblemToSave(loc[p]), loc[p].answer,
              loc[p].output, Role(args[p])>>>>

\* a code-mode turn, whose answer differs from its output, has been saved
C7_Witness ==
  \E p \in Procs :
    /\ Saved(p)
    /\ loc[p].answer # loc[p].output
    /\ Len(get_chat_by_ids(View(p), <<loc[p].chat_id>>)) = 1

\* C8: whenever the process may be killed, the database file holds a turn
\* together with its membership or neither: no membership names a missing
\* turn, and no turn inserted while a session was active lacks a membership.
C8_RecordTurnAtomic ==
  /\ \A sm \in db.session_messages : sm.message_id \in Ids(db.chat_history)
  /\ \A g \in db.g_created : g.had_active => MembershipsOf(db, g.turn) # {}

\* an invocation was killed between the INSERT of the turn and the INSERT of
\* its membership, and a session is active in the database file
C8_Witness ==
  \E p \in Procs : fate[p] = <<"killed", "save_member">> /\ has_active_session(db)

\* C9: at the commit of save_chat_record, the session the new turn is
\* attached to is active in the database file as committed.
C9_AttachedSessionActive ==
  [][\A p \in Procs :
       (pc[p] = "save_commit" /\ pc'[p] = "returned") =>
          \A sm \in MembershipsOf(db', loc[p].chat_id) :
             \E s \in ActiveSessions(db') : s.id = sm.session_id]_vars

\* one invocation is about to commit a turn attached to a session while the
\* other is held at the UPDATE of start_session
C9_Witness ==
  \E p, q \in Procs :
    /\ pc[p] = "save_commit"
    /\ loc[p].session_row # <<>>
    /\ loc[p].site = "plain"
    /\ pc[q] = "ss_update"

ContextItem(ch) ==
  IF ch.output # <<>> THEN [problem |-> ch.problem, output |-> ch.output]
  ELSE [problem |-> ch.problem]

\* the turns created under the session s, oldest first, as context items
SessionContext(D, s) ==
  LET ids == SortAsc(CreatedUnder(D, s))
  IN  [k \in 1..Len(ids) |-> ContextItem(RowById(D.chat_history, ids[k]))]

\* C10: bare -m without an active session prints the no-active-session
\* error and returns: the executor is not run, nothing is written and the
\* database file is unchanged; with an active session the context is the
\* turns of that session in creation order and then the new message.
C10_ContinueSession ==
  /\ [](\A p \in Procs : loc[p].site = "cont" =>
          IF ~has_active_session(db)
          THEN /\ pc[p] = "returned"
               /\ loc[p].printed = <<"no active session">>
               /\ ~loc[p].invoked
               /\ loc[p].chat_id = 0
               /\ txn[p] = <<>>
          ELSE pc[p] = "exec" =>
                 loc[p].param_list
                   = SessionContext(db, LatestSession(db))
                       \o <<[problem |-> loc[p].message]>>)
  /\ [][(\E p \in Procs : pc[p] = "idle" /\ loc'[p].site = "cont"
                            /\ ~has_active_session(db)) => db' = db]_vars

\* bare -m with a message, turns in the store and no session
C10_Witness ==
  \E p \in Procs :
    /\ loc[p].site = "cont"
    /\ args[p].message # <<>>
    /\ db.chat_history # {}
    /\ loc[p].printed = <<"no active session">>

\* the ids of the n most recent turns: fewer than n turns have a larger id
LastTurns(D, n) ==
  {t \in Ids(D.chat_history) :
     Cardinality({u \in Ids(D.chat_history) : u > t}) < n}

\* C11: a selector that is a single integer n selects the last n turns: the
\* context rows are exactly the min(n, number of turns) most recent turns in
\* ascending id order; the same integer as an index of a comma list or range
\* selects the one turn at recency index n (none if there is no such turn).
C11_CountSelectorContext ==
  \A p \in Procs :
    (pc[p] = "exec" /\ loc[p].site = "hist" /\ IsDigits(args[p].m)) =>
       LET n == ToInt(args[p].m)
           N == Cardinality(db.chat_history)
       IN  /\ RowIds(loc[p].records) = SortAsc(LastTurns(db, n))
           /\ Len(loc[p].records) = IF n <= N THEN n ELSE N
           /\ ids_of_indices(db, <<n>>) = SortAsc(TurnAtRecency(db, n))
           /\ Len(ids_of_indices(db, <<n>>)) = IF 1 <= n /\ n <= N THEN 1 ELSE 0

\* -m "3" with three turns stored: the rows 1, 2 and 3, where index 3 is the
\* turn 1 alone
C11_Witness ==
  \E p \in Procs :
    /\ pc[p] = "exec"
    /\ args[p].m = <<"3">>
    /\ Cardinality(db.chat_history) = 3
    /\ RowIds(loc[p].records) = <<1, 2, 3>>
    /\ ids_of_indices(db, <<3>>) = <<1>>

MembersOfSession(D, s) == {sm \in D.session_messages : sm.session_id = s}

\* C12: in every state of the store, as committed and as any connection
\* sees it, a turn has at most one membership, and a membership names the
\* session that was active when its turn was inserted; no step changes the
\* memberships of a turn that is already in the database file, nor, within a
\* connection, of a turn other than the one being recorded; so the
\* memberships of a deactivated session never change.
C12_MembershipFixed ==
  /\ [](\A D \in AllViews :
          /\ \A t \in Ids(D.chat_history) : Cardinality(MembershipsOf(D, t)) <= 1
          /\ \A sm \in D.session_messages :
               \E g \in D.g_created :
                 g.turn = sm.message_id /\ g.had_active /\ g.latest = sm.session_id)
  /\ [][\A t \in Ids(db.chat_history) :
          MembershipsOf(db', t) = MembershipsOf(db, t)]_vars
  /\ [][\A p \in Procs :
          \A t \in Ids(View(p).chat_history) \ {loc[p].chat_id} :
             t \in Ids(View(p)'.chat_history) =>
               MembershipsOf(View(p)', t) = MembershipsOf(View(p), t)]_vars
  /\ [][\A s \in db.sessions :
          s.is_active = 0 =>
            MembersOfSession(db', s.id) = MembersOfSession(db, s.id)]_vars

\* a deactivated session with a turn, the active session with a later turn
C12_Witness ==
  \E s, a \in db.sessions :
    /\ s.is_active = 0
    /\ a.is_active = 1
    /\ MembersOfSession(db, s.id) # {}
    /\ MembersOfSession(db, a.id) # {}

\* the number of turns a list-mode invocation asks for
ListShown == 5

\* C13: a list-mode invocation prints the min(5, number of turns) most
\* recent turns, newest first (the no-records text when there is none), and
\* returns: the executor is not run, nothing is written, and neither the
\* dispatch into list mode nor the return from it changes the database file.
C13_ListMode ==
  /\ [](\A p \in Procs : loc[p].site = "list" =>
          /\ pc[p] = "returned"
          /\ ~loc[p].invoked
          /\ loc[p].chat_id = 0
          /\ txn[p] = <<>>
          /\ Len(loc[p].printed) = 1
          /\ LET N == Cardinality(db.chat_history)
                 lines == loc[p].printed[1]
             IN  IF N = 0 THEN lines = <<"no records">>
                 ELSE /\ Len(lines) = (IF N <= ListShown THEN N ELSE ListShown)
                      /\ [k \in 1..Len(lines) |-> lines[k][2]]
                           = Reverse(SortAsc(LastTurns(db, ListShown))))
  /\ [][(\E p \in Procs : loc[p].site = "list" \/ loc'[p].site = "list")
          => db' = db /\ txn' = txn]_vars

\* list mode with six turns stored: five lines, the turns 6 down to 2
C13_Witness ==
  \E p \in Procs :
    /\ loc[p].site = "list"
    /\ Cardinality(db.chat_history) = 6
    /\ Len(loc[p].printed[1]) = 5
    /\ loc[p].printed[1][1][2] = 6
    /\ loc[p].printed[1][5][2] = 2

\* the error text of an executor run that failed: the text of the exception
\* when it could not be launched, what it wrote to stderr otherwise
ErrorTextOf(r) == IF r.how = "no_launch" THEN ErrText ELSE r.stderr

\* C14: an invocation that has returned has recorded a turn if and only if
\* it ran the executor, the database file changes only by the one turn of
\* an invocation that ran the executor, and when the executor could not be
\* launched or exited abnormally the turn recorded holds the executor's
\* error text as its output and as its answer.
C14_TurnIffExecutor ==
  /\ [](\A p \in Procs : pc[p] = "returned" =>
          /\ loc[p].invoked <=> loc[p].chat_id # 0
          /\ loc[p].invoked =>
               /\ txn[p] = <<>>
               /\ loc[p].chat_id \in Ids(db.chat_history)
               /\ loc[p].run[1].how # "ok" =>
                    /\ StoredTurn(p).output = ErrorTextOf(loc[p].run[1])
                    /\ StoredTurn(p).answer = ErrorTextOf(loc[p].run[1]))
  /\ [][db'.chat_history # db.chat_history =>
          \E p \in Procs :
            /\ loc[p].invoked
            /\ pc[p] = "save_commit"
            /\ loc[p].chat_id \notin Ids(db.chat_history)
            /\ \E ch \in db'.chat_history :
                 /\ ch.id = loc[p].chat_id
                 /\ db'.chat_history = db.chat_history \cup {ch}]_vars

====
